---- MODULE Spec2Model ----
(***************************************************************************)
(* Model of the issue-creation session of the Discord bot: the message     *)
(* collector of /create-issue, generation (generateIssueContent), the      *)
(* review buttons and createIssues.  Every await of the JavaScript code is *)
(* a point where a handler is suspended, so each handler is a record with  *)
(* a position (pc) and the steps between two awaits are single actions.    *)
(***************************************************************************)
EXTENDS Integers, Sequences, FiniteSets, Bags, TLC

\* ---------------------------------------------------------------- bounds
MaxMsgs == 2          \* messages that pass the collector's filter
MaxPresses == 1       \* button presses that pass the button collector's filter
MaxAttachments == 1   \* attachments carried by one message
MaxFaults == 1        \* external calls (send, edit, fetch, API) that fail

\* ------------------------------------------------------- program constants
MinTitle == 10
MinBody == 100
MinLabel == 2
MaxLabel == 20

\* ------------------------------------------------------------------ users
OwnerId == "owner"    \* interaction.user.id
OtherId == "other"    \* another human member of the thread
BotId == "bot"        \* the bot itself (author.bot = true)

Author(id) == [id |-> id, bot |-> (id = BotId)]

\* ------------------------------------------------------- inbound messages
\* the n-th collected message has its own text and its own attachment
\* URLs (Discord gives every attachment a URL of its own)
Fragments == <<"a", "b", "c", "d", "e", "f">>
Texts(n) == {"", Fragments[n], "!done", "!DONE"}
Url(n, j) == <<n, j>>
Attachments(n, k) == [j \in 1..k |-> Url(n, j)]

\* String.prototype.toLowerCase on the texts of the model: the texts that
\* have an upper-case letter, and what they become
Lower == "!DONE" :> "!done" @@ "!Done" :> "!done" @@ "ok !DONE" :> "ok !done"

\* (mutant: the text is compared as it was typed)
toLowerCase_same(s) == s

toLowerCase(s) == IF s \in DOMAIN Lower THEN Lower[s] ELSE s

\* the users that can post in the collector's channel: a DM has only the
\* invoking user and the bot, a thread is open to other members
Posters(dm) == IF dm THEN {OwnerId, BotId} ELSE {OwnerId, OtherId, BotId}
Pressers(dm) == IF dm THEN {OwnerId} ELSE {OwnerId, OtherId}

\* the messages that can arrive when n - 1 messages have been collected
Msgs(dm, n) == {[author |-> Author(u), content |-> c,
                 attachments |-> Attachments(n, k)] :
                  u \in Posters(dm), c \in Texts(n), k \in 0..MaxAttachments}

\* --------------------------------------------------- completion documents
\* an issue candidate of the completion's JSON: the lengths of its strings,
\* whether it has a labels key, and whether it has a key the schema does
\* not name
Cand(id, t, b, hasL, ls) ==
  [id |-> id, titleLen |-> t, bodyLen |-> b, hasLabels |-> hasL, labels |-> ls,
   extra |-> FALSE]

IssueA == Cand("A", 12, 120, TRUE, <<3, 5>>)
IssueB == Cand("B", 10, 100, FALSE, <<>>)
IssueC == Cand("C", 30, 400, TRUE, <<>>)
ShortTitle == Cand("T", 9, 120, TRUE, <<3>>)

\* the accumulated text of the stream: malformed JSON, or a JSON object
\* without an "issues" key, with an "issues" value that is no array, or with
\* an "issues" array
Doc(ok, has, is) ==
  [wellFormed |-> ok, hasIssues |-> has, isArray |-> TRUE, issues |-> is]
Malformed == Doc(FALSE, FALSE, <<>>)
NotArray == [Doc(TRUE, TRUE, <<>>) EXCEPT !.isArray = FALSE]
Docs == {Malformed,
         Doc(TRUE, FALSE, <<>>),
         Doc(TRUE, TRUE, <<IssueA, ShortTitle>>),
         Doc(TRUE, TRUE, <<>>),
         Doc(TRUE, TRUE, <<IssueA, IssueB, IssueC>>)}

\* IssueSchema: one element of the array
IssueValid(c) ==
  /\ c.titleLen >= MinTitle
  /\ c.bodyLen >= MinBody
  /\ \A i \in 1..Len(c.labels) : c.labels[i] >= MinLabel /\ c.labels[i] <= MaxLabel

\* (mutant: the elements are checked up to the first valid one)
SchemaOk_some(doc) ==
  /\ doc.hasIssues
  /\ doc.isArray
  /\ doc.issues = <<>> \/ \E i \in 1..Len(doc.issues) : IssueValid(doc.issues[i])

\* IssueSchema.safeParse(rawData.issues).success
SchemaOk(doc) ==
  /\ doc.hasIssues
  /\ doc.isArray
  /\ \A i \in 1..Len(doc.issues) : IssueValid(doc.issues[i])

\* (mutant: the labels key is left as it came, without the default)
ParsedIssue_noDefault(c) == [c EXCEPT !.extra = FALSE]

\* (mutant: the title gets the template's prefix)
ParsedIssue_prefixed(c) ==
  [c EXCEPT !.hasLabels = TRUE, !.extra = FALSE, !.titleLen = c.titleLen + 1,
            !.labels = IF c.hasLabels THEN c.labels ELSE <<>>]

\* validation.data: z.object strips the keys it does not name, and labels
\* default to the empty list
ParsedIssue(c) == [c EXCEPT !.hasLabels = TRUE, !.extra = FALSE,
                            !.labels = IF c.hasLabels THEN c.labels ELSE <<>>]
ParsedData(doc) == [i \in 1..Len(doc.issues) |-> ParsedIssue(doc.issues[i])]

\* validateAIResponse: JSON.parse throws on malformed text, the schema
\* failure throws one Error; otherwise validation.data is returned
\* (mutant: the check of validation.success is missing)
ValidationThrows_parseOnly(doc) == ~doc.wellFormed

ValidationThrows(doc) == ~doc.wellFormed \/ ~SchemaOk(doc)

validateAIResponse(doc) ==
  IF ValidationThrows(doc)
  THEN [threw |-> TRUE, data |-> <<>>]
  ELSE [threw |-> FALSE, data |-> ParsedData(doc)]

\* ------------------------------------------------------------------ state
VARIABLES
  isDM,             \* the command was invoked in a DM (no thread)
  wantsPreview,     \* the preview option of /create-issue
  collector,        \* the message collector: "open" or "ended"
  assets,           \* [text, images, generatedIssues]
  handlers,         \* the collect handlers started so far, with their position
  endPc,            \* position of the collector's 'end' handler
  generatedIssues,  \* const generatedIssues of the 'end' handler
  gens,             \* the calls of generateIssueContent
  runs,             \* the calls of createIssues
  tracker,          \* the issues that exist in the tracker
  calls,            \* the octokit.issues.create calls made, in order
  sent,             \* the messages the bot sent to the conversation
  preview,          \* the review message
  buttonCollector,  \* "none", "open" or "ended"
  presses,          \* the button handlers started so far
  archived,         \* thread.setArchived(true) has succeeded
  unhandled,        \* number of rejected handler promises nobody catches
  exited,           \* the process has exited
  faults,           \* external calls that can still fail in this behaviour
  event,            \* the inbound event this step delivered, if it did
  edits,            \* the edit windows (editCollector) opened so far
  listing,          \* the /list-issues command: its input and its result
  stream,           \* the loop of handleAIStream over the chunks of a stream
  command,          \* the interactionCreate handler of a command
  pair              \* two invocations of /create-issue side by side

confVars == <<isDM, wantsPreview>>
collectVars == <<collector, assets, handlers>>
endVars == <<endPc, generatedIssues>>
reviewVars == <<preview, buttonCollector, presses>>
trackerVars == <<runs, tracker, calls>>
procVars == <<unhandled, exited>>
envVars == <<faults>>
\* the edit windows and the listing command
asideVars == <<stream, command, pair>>
sideVars == <<edits, listing, asideVars>>
\* everything that belongs to the session, as opposed to the environment
sessionVars == <<confVars, collectVars, endVars, gens, trackerVars, sent,
                 reviewVars, archived, procVars>>
vars == <<sessionVars, envVars, event, sideVars>>

NoIssues == <<>>
NoEvent == [kind |-> "none", user |-> "", content |-> "", n |-> 0, customId |-> ""]
MessageEvent(m) == [NoEvent EXCEPT !.kind = "message", !.user = m.author.id,
                                   !.content = m.content,
                                   !.n = Len(m.attachments)]
PressEvent(user, id) == [NoEvent EXCEPT !.kind = "press", !.user = user,
                                        !.customId = id]
\* /list-issues has not been invoked
NoListing == [pc |-> "idle", options |-> <<>>, nodes |-> <<>>, items |-> <<>>,
              out |-> <<>>, embeds |-> <<>>]
\* handleAIStream has not been given a stream
NoStream == [pc |-> "idle", chunks |-> <<>>, len |-> 0, edits |-> 0]
\* no command interaction has arrived
NoCommand == [name |-> "", pc |-> "idle", replied |-> FALSE, error |-> FALSE,
              told |-> "none"]
\* neither of the two invocations has been made
NoSession == [state |-> "none", user |-> "", dm |-> FALSE, wantsPreview |-> FALSE,
              text |-> <<>>, images |-> <<>>, generatedIssues |-> NoIssues]
NoStep == [kind |-> "none", channel |-> <<>>, session |-> 0]
NoPair == [sessions |-> <<NoSession, NoSession>>, step |-> NoStep, posted |-> 0]
NoPreview == [exists |-> FALSE, content |-> "", components |-> {},
              issues |-> <<>>, edits |-> 0, clearing |-> FALSE]

Init ==
  /\ isDM \in BOOLEAN
  /\ wantsPreview \in BOOLEAN
  /\ collector = "open"
  /\ assets = [text |-> <<>>, images |-> <<>>, generatedIssues |-> NoIssues]
  /\ handlers = <<>>
  /\ endPc = "idle"
  /\ generatedIssues = NoIssues
  /\ gens = <<>>
  /\ runs = <<>>
  /\ tracker = <<>>
  /\ calls = <<>>
  /\ sent = EmptyBag
  /\ preview = NoPreview
  /\ buttonCollector = "none"
  /\ presses = <<>>
  /\ archived = FALSE
  /\ unhandled = 0
  /\ exited = FALSE
  /\ faults = MaxFaults
  /\ event = NoEvent
  /\ edits = <<>>
  /\ listing = NoListing
  /\ stream = NoStream
  /\ command = NoCommand
  /\ pair = NoPair

\* an awaited external call (send, edit, fetch, API call) resolves or rejects
Outcomes == {"ok", "fail"}
Failed(out) == IF out = "fail" THEN 1 ELSE 0
Faults(n) == n <= faults /\ faults' = faults - n
Fault(out) == Faults(Failed(out))

\* a message of the bot in the conversation; n is the count that a
\* 'Created n Issues' embed or a review message shows
Note(kind, n) == [kind |-> kind, n |-> n]
Send(note) == sent' = sent (+) SetToBag({note})

\* who called generateIssueContent or createIssues
EndCaller == <<"end", 0>>
PressCaller(p) == <<"press", p>>

\* ---------------------------------------------------- generateIssueContent
\* the synchronous start of generateIssueContent: processImages maps over
\* the images that are in the bundle at the time of the call
NewGen(caller, as) ==
  [caller |-> caller, pc |-> "images", images |-> as.images, k |-> 0,
   kept |-> <<>>, text |-> <<>>, doc |-> Malformed, data |-> <<>>,
   status |-> "none", shown |-> FALSE]

\* ------------------------------------------------------ message collector
\* (mutant: the bot flag is never seen)
AuthorBot_never(m) == FALSE

\* m.author.bot, read by the filter and again by the collect handler
AuthorBot(m) == m.author.bot

\* filter: m => !m.author.bot
CollectorFilter(m) == ~AuthorBot(m)

\* msg.content.toLowerCase() === '!done'
IsDone(m) == toLowerCase(m.content) = "!done"

\* collector.stop(), or the collector's timer: the collector ends once and
\* its 'end' handler runs up to its first await, inside generateIssueContent
CollectorEnd ==
  /\ collector' = "ended"
  /\ endPc' = "gen"
  /\ gens' = Append(gens, NewGen(EndCaller, assets))

\* one turn of the attachment loop and the text step that follows it: the
\* handler goes on from attachment k (already pushed and acknowledged) to
\* its next await, or finishes
HandlerAdvance(h, as) ==
  IF h.k < Len(h.attachments)
  THEN [h |-> [h EXCEPT !.k = h.k + 1, !.pc = "ackImage"],
        as |-> [as EXCEPT !.images = Append(as.images, h.attachments[h.k + 1])]]
  ELSE IF h.content # ""
  THEN [h |-> [h EXCEPT !.pc = "ackText"],
        as |-> [as EXCEPT !.text = Append(as.text, h.content)]]
  ELSE [h |-> [h EXCEPT !.pc = "done"], as |-> as]

\* a handler keeps the message's text and attachments; priorText and
\* priorImages remember the bundle the handler found when it started
NewHandler(m, as) == [author |-> m.author.id,
                      content |-> m.content, attachments |-> m.attachments,
                      pc |-> "start", k |-> 0,
                      priorText |-> as.text, priorImages |-> as.images]

\* collector.on('collect'): the part that runs when the message arrives
Collect(m) ==
  IF AuthorBot(m)
  THEN UNCHANGED <<collectVars, endVars, gens>>
  ELSE IF IsDone(m)
  THEN /\ CollectorEnd
       /\ UNCHANGED <<assets, handlers, generatedIssues>>
  ELSE LET r == HandlerAdvance(NewHandler(m, assets), assets)
       IN /\ assets' = r.as
          /\ handlers' = Append(handlers, r.h)
          /\ UNCHANGED <<collector, endVars, gens>>

\* the collector, listening on the channel, is given message m
Deliver(m) ==
  /\ ~exited
  /\ event' = MessageEvent(m)
  /\ collector = "open"
  /\ IF CollectorFilter(m)
     THEN Collect(m)
     ELSE UNCHANGED <<collectVars, endVars, gens>>
  /\ UNCHANGED <<sideVars, confVars, trackerVars, sent, reviewVars, archived, procVars,
                 envVars>>

\* a message is posted in the channel while the collector listens on it
Message(m) ==
  /\ collector = "open"
  /\ Len(handlers) < MaxMsgs \/ AuthorBot(m) \/ IsDone(m)
  /\ m \in Msgs(isDM, Len(handlers) + 1)
  /\ Deliver(m)

\* a collect handler resumes after the send it awaited
HandlerResume(i, out) ==
  /\ ~exited
  /\ event' = NoEvent
  /\ Fault(out)
  /\ i \in 1..Len(handlers)
  /\ LET h == handlers[i] IN
     /\ h.pc \in {"ackImage", "failImage", "ackText"}
     /\ CASE h.pc = "ackImage" /\ out = "ok" ->
               LET r == HandlerAdvance(h, assets)
               IN /\ Send(Note("addedImage", 0))
                  /\ assets' = r.as
                  /\ handlers' = [handlers EXCEPT ![i] = r.h]
                  /\ UNCHANGED unhandled
          [] h.pc = "ackImage" /\ out = "fail" ->
               /\ handlers' = [handlers EXCEPT ![i].pc = "failImage"]
               /\ UNCHANGED <<sent, assets, unhandled>>
          [] h.pc = "failImage" /\ out = "ok" ->
               LET r == HandlerAdvance(h, assets)
               IN /\ Send(Note("attachmentFailed", 0))
                  /\ assets' = r.as
                  /\ handlers' = [handlers EXCEPT ![i] = r.h]
                  /\ UNCHANGED unhandled
          [] h.pc = "failImage" /\ out = "fail" ->
               /\ handlers' = [handlers EXCEPT ![i].pc = "rejected"]
               /\ unhandled' = unhandled + 1
               /\ UNCHANGED <<sent, assets>>
          [] h.pc = "ackText" /\ out = "ok" ->
               /\ Send(Note("addedText", 0))
               /\ handlers' = [handlers EXCEPT ![i].pc = "done"]
               /\ UNCHANGED <<assets, unhandled>>
          [] h.pc = "ackText" /\ out = "fail" ->
               /\ handlers' = [handlers EXCEPT ![i].pc = "rejected"]
               /\ unhandled' = unhandled + 1
               /\ UNCHANGED <<sent, assets>>
  /\ UNCHANGED <<sideVars, confVars, collector, endVars, gens, trackerVars, reviewVars,
                 archived, exited>>

\* the collector's timer (time: 600_000) fires
CollectTimeout ==
  /\ ~exited
  /\ event' = NoEvent
  /\ collector = "open"
  /\ CollectorEnd
  /\ UNCHANGED <<sideVars, confVars, assets, handlers, generatedIssues, trackerVars, sent,
                 reviewVars, archived, procVars, envVars>>

\* ---------------------------------------------- generateIssueContent steps
SetGen(g, rec) == gens' = [gens EXCEPT ![g] = rec]

\* processImages: one image of the snapshot is fetched; a failed fetch is
\* dropped with a warning, and a warning that cannot be sent rejects the
\* Promise.all
GenImage(g, fetch, warn) ==
  /\ ~exited
  /\ event' = NoEvent
  /\ Faults(Failed(fetch) + Failed(warn))
  /\ g \in 1..Len(gens)
  /\ LET gn == gens[g] IN
     /\ gn.pc = "images"
     /\ gn.k < Len(gn.images)
     /\ CASE fetch = "ok" ->
               /\ warn = "ok"
               /\ SetGen(g, [gn EXCEPT !.k = gn.k + 1,
                                       !.kept = Append(gn.kept, gn.images[gn.k + 1])])
               /\ UNCHANGED sent
          [] fetch = "fail" /\ warn = "ok" ->
               /\ SetGen(g, [gn EXCEPT !.k = gn.k + 1])
               /\ Send(Note("skippingImage", 0))
          [] fetch = "fail" /\ warn = "fail" ->
               /\ SetGen(g, [gn EXCEPT !.pc = "threw"])
               /\ UNCHANGED sent
  /\ UNCHANGED <<sideVars, confVars, collectVars, endVars, trackerVars, reviewVars,
                 archived, procVars>>

\* all images are settled: buildMessages joins the text that the bundle
\* holds now, and openai.chat.completions.create is called
GenBuild(g) ==
  /\ ~exited
  /\ event' = NoEvent
  /\ g \in 1..Len(gens)
  /\ gens[g].pc = "images"
  /\ gens[g].k = Len(gens[g].images)
  /\ SetGen(g, [gens[g] EXCEPT !.pc = "request", !.text = assets.text])
  /\ UNCHANGED <<sideVars, confVars, collectVars, endVars, trackerVars, sent, reviewVars,
                 archived, procVars, envVars>>

\* the completion call resolves with a stream (handleAIStream then sends
\* its status message) or rejects
GenRequest(g, out) ==
  /\ ~exited
  /\ event' = NoEvent
  /\ Fault(out)
  /\ g \in 1..Len(gens)
  /\ gens[g].pc = "request"
  /\ SetGen(g, [gens[g] EXCEPT !.pc = IF out = "ok" THEN "statusSend" ELSE "threw"])
  /\ UNCHANGED <<sideVars, confVars, collectVars, endVars, trackerVars, sent, reviewVars,
                 archived, procVars>>

\* channel.send('Starting generation...'), before the try of handleAIStream
GenStatusSend(g, out) ==
  /\ ~exited
  /\ event' = NoEvent
  /\ Fault(out)
  /\ g \in 1..Len(gens)
  /\ gens[g].pc = "statusSend"
  /\ IF out = "ok"
     THEN /\ SetGen(g, [gens[g] EXCEPT !.pc = "stream", !.status = "starting"])
          /\ Send(Note("status", 0))
     ELSE /\ SetGen(g, [gens[g] EXCEPT !.pc = "threw"])
          /\ UNCHANGED sent
  /\ UNCHANGED <<sideVars, confVars, collectVars, endVars, trackerVars, reviewVars,
                 archived, procVars>>

\* the stream is consumed to its end with accumulated text doc, or breaks
GenStream(g, out, doc) ==
  /\ ~exited
  /\ event' = NoEvent
  /\ Fault(out)
  /\ g \in 1..Len(gens)
  /\ gens[g].pc = "stream"
  /\ IF out = "ok"
     THEN SetGen(g, [gens[g] EXCEPT !.pc = "completeEdit", !.doc = doc])
     ELSE /\ doc = Malformed
          /\ SetGen(g, [gens[g] EXCEPT !.pc = "failEdit"])
  /\ UNCHANGED <<sideVars, confVars, collectVars, endVars, trackerVars, sent, reviewVars,
                 archived, procVars>>

\* the outcome of handleAIStream once the text is accumulated and shown
AfterComplete(gn) ==
  LET v == validateAIResponse(gn.doc)
  IN IF v.threw
     THEN [gn EXCEPT !.pc = "failEdit", !.status = "complete", !.shown = TRUE]
     ELSE [gn EXCEPT !.pc = "returned", !.status = "complete", !.shown = TRUE,
                     !.data = v.data]

\* statusMessage.edit('Generation complete! ...') and validateAIResponse
GenCompleteEdit(g, out) ==
  /\ ~exited
  /\ event' = NoEvent
  /\ Fault(out)
  /\ g \in 1..Len(gens)
  /\ gens[g].pc = "completeEdit"
  /\ IF out = "ok"
     THEN SetGen(g, AfterComplete(gens[g]))
     ELSE SetGen(g, [gens[g] EXCEPT !.pc = "failEdit"])
  /\ UNCHANGED <<sideVars, confVars, collectVars, endVars, trackerVars, sent, reviewVars,
                 archived, procVars>>

\* the catch of handleAIStream: statusMessage.edit('Generation failed!'),
\* then the error is thrown again
GenFailEdit(g, out) ==
  /\ ~exited
  /\ event' = NoEvent
  /\ Fault(out)
  /\ g \in 1..Len(gens)
  /\ gens[g].pc = "failEdit"
  /\ IF out = "ok"
     THEN SetGen(g, [gens[g] EXCEPT !.pc = "threw", !.status = "failed",
                                    !.shown = FALSE])
     ELSE SetGen(g, [gens[g] EXCEPT !.pc = "threw"])
  /\ UNCHANGED <<sideVars, confVars, collectVars, endVars, trackerVars, sent, reviewVars,
                 archived, procVars>>

\* ------------------------------------------------------------ createIssues
\* the for loop goes on to its next octokit.issues.create, or returns
RunStep(run) ==
  IF run.i < Len(run.issues) THEN [run EXCEPT !.pc = "inflight"]
                             ELSE [run EXCEPT !.pc = "returned"]

NewRun(caller, issues) ==
  RunStep([caller |-> caller, issues |-> issues, i |-> 0, pc |-> "start",
           created |-> <<>>])

\* createdIssues.push(data)
OnCreated(run, data) ==
  RunStep([run EXCEPT !.created = Append(run.created, data), !.i = run.i + 1])

\* (mutant: the catch logs the error and the loop goes on)
OnCreateFailed_swallow(run) == RunStep([run EXCEPT !.i = run.i + 1])

\* catch (error) { logger.error(...); throw error; }
OnCreateFailed(run) == [run EXCEPT !.pc = "threw"]

\* (mutant: the batch is submitted from its end)
CallOf_reversed(r, run, as) ==
  [run |-> r, idx |-> run.i + 1, issue |-> run.issues[Len(run.issues) - run.i],
   images |-> as.images, out |-> "pending"]

\* the arguments of the create call that run (number r) has in flight
CallOf(r, run, as) ==
  [run |-> r, idx |-> run.i + 1, issue |-> run.issues[run.i + 1],
   images |-> as.images, out |-> "pending"]

\* the log of create calls after run r has moved to its next step
CallsAfter(log, r, run) ==
  IF run.pc = "inflight" THEN Append(log, CallOf(r, run, assets)) ELSE log

\* a caller invokes createIssues(issues, assets)
StartRun(caller, issues) ==
  /\ runs' = Append(runs, NewRun(caller, issues))
  /\ calls' = CallsAfter(calls, Len(runs) + 1, NewRun(caller, issues))
  /\ UNCHANGED tracker

Created(call) == [number |-> Len(tracker) + 1, id |-> call.issue.id,
                  issue |-> call.issue, images |-> call.images]

\* the position in the log of the call that run r awaits
InFlight(r) == CHOOSE j \in 1..Len(calls) :
                 calls[j].run = r /\ calls[j].out = "pending"

\* octokit.issues.create of run r resolves or rejects
CallReturn(r, out) ==
  /\ ~exited
  /\ event' = NoEvent
  /\ Fault(out)
  /\ r \in 1..Len(runs)
  /\ runs[r].pc = "inflight"
  /\ LET data == Created(calls[InFlight(r)])
         run == IF out = "ok" THEN OnCreated(runs[r], data)
                              ELSE OnCreateFailed(runs[r])
     IN /\ runs' = [runs EXCEPT ![r] = run]
        /\ tracker' = IF out = "ok" THEN Append(tracker, data) ELSE tracker
        /\ calls' = CallsAfter([calls EXCEPT ![InFlight(r)].out = out], r, run)
  /\ UNCHANGED <<sideVars, confVars, collectVars, endVars, gens, sent, reviewVars,
                 archived, procVars>>

\* ------------------------------------------- collector.on('end'), continued
GenOf(caller) == CHOOSE g \in 1..Len(gens) : gens[g].caller = caller
RunOf(caller) == CHOOSE r \in 1..Len(runs) : runs[r].caller = caller

\* generateIssueContent has settled: without a catch the rejection is left
\* unhandled; a result is committed at once, or stored and sent for review
EndAfterGen ==
  /\ ~exited
  /\ event' = NoEvent
  /\ endPc = "gen"
  /\ LET gn == gens[GenOf(EndCaller)] IN
     /\ gn.pc \in {"returned", "threw"}
     /\ IF gn.pc = "threw"
        THEN /\ endPc' = "rejected"
             /\ unhandled' = unhandled + 1
             /\ UNCHANGED <<generatedIssues, assets, trackerVars>>
        ELSE /\ generatedIssues' = gn.data
             /\ UNCHANGED unhandled
             /\ IF ~wantsPreview
                THEN /\ StartRun(EndCaller, gn.data)
                     /\ endPc' = "create"
                     /\ UNCHANGED assets
                ELSE /\ assets' = [assets EXCEPT !.generatedIssues = gn.data]
                     /\ endPc' = "sendPreview"
                     /\ UNCHANGED trackerVars
  /\ UNCHANGED <<sideVars, confVars, collector, handlers, gens, sent, reviewVars, archived,
                 exited, envVars>>

\* createIssues has settled: its error is not caught by the 'end' handler
EndAfterCreate ==
  /\ ~exited
  /\ event' = NoEvent
  /\ endPc = "create"
  /\ LET run == runs[RunOf(EndCaller)] IN
     /\ run.pc \in {"returned", "threw"}
     /\ IF run.pc = "threw"
        THEN endPc' = "rejected" /\ unhandled' = unhandled + 1
        ELSE endPc' = "sendSuccess" /\ UNCHANGED unhandled
  /\ UNCHANGED <<sideVars, confVars, collectVars, generatedIssues, gens, trackerVars, sent,
                 reviewVars, archived, exited, envVars>>

\* the embed 'Created n Issues' of a createIssues result
SuccessNote(run) == Note("success", Len(run.created))

EndSendSuccess(out) ==
  /\ ~exited
  /\ event' = NoEvent
  /\ Fault(out)
  /\ endPc = "sendSuccess"
  /\ IF out = "ok"
     THEN /\ Send(SuccessNote(runs[RunOf(EndCaller)]))
          /\ endPc' = IF isDM THEN "done" ELSE "archive"
          /\ UNCHANGED unhandled
     ELSE /\ endPc' = "rejected"
          /\ unhandled' = unhandled + 1
          /\ UNCHANGED sent
  /\ UNCHANGED <<sideVars, confVars, collectVars, generatedIssues, gens, trackerVars,
                 reviewVars, archived, exited>>

\* thread.setArchived(true) of the direct-commit branch
EndArchive(out) ==
  /\ ~exited
  /\ event' = NoEvent
  /\ Fault(out)
  /\ endPc = "archive"
  /\ IF out = "ok"
     THEN endPc' = "done" /\ archived' = TRUE /\ UNCHANGED unhandled
     ELSE endPc' = "rejected" /\ unhandled' = unhandled + 1 /\ UNCHANGED archived
  /\ UNCHANGED <<sideVars, confVars, collectVars, generatedIssues, gens, trackerVars, sent,
                 reviewVars, exited>>

\* the buttons of the row that is sent with the review message
ReviewRow == {"confirm_issues", "cancel_issues"}

\* the review message is sent and the button collector is created on it
EndSendPreview(out) ==
  /\ ~exited
  /\ event' = NoEvent
  /\ Fault(out)
  /\ endPc = "sendPreview"
  /\ IF out = "ok"
     THEN /\ Send(Note("preview", Len(generatedIssues)))
          /\ preview' = [exists |-> TRUE, content |-> "Review these issues",
                         components |-> ReviewRow, issues |-> generatedIssues,
                         edits |-> 0, clearing |-> FALSE]
          /\ buttonCollector' = "open"
          /\ endPc' = "done"
          /\ UNCHANGED unhandled
     ELSE /\ endPc' = "rejected"
          /\ unhandled' = unhandled + 1
          /\ UNCHANGED <<sent, preview, buttonCollector>>
  /\ UNCHANGED <<sideVars, confVars, collectVars, generatedIssues, gens, trackerVars,
                 presses, archived, exited>>

\* ----------------------------------------------------------- review buttons
\* (mutant: the filter lets every user through)
ButtonFilter_any(user) == TRUE

\* filter: i => i.user.id === interaction.user.id
ButtonFilter(user) == user = OwnerId

\* buttonCollector.stop() or its timer: the collector ends once, and its
\* 'end' handler starts previewMessage.edit({ components: [] }) unawaited
ButtonEnd ==
  IF buttonCollector = "open"
  THEN /\ buttonCollector' = "ended"
       /\ preview' = [preview EXCEPT !.clearing = TRUE]
  ELSE UNCHANGED <<buttonCollector, preview>>

\* the presses of the buttons of the row
DecisionPresses == SelectSeq(presses, LAMBDA pr : pr.customId # "edit")

\* a component interaction on the review message reaches the button
\* collector, which starts a handler for it if it passes the filter
Interaction(user, id) ==
  /\ ~exited
  /\ event' = PressEvent(user, id)
  /\ preview.exists
  /\ IF buttonCollector = "open" /\ ButtonFilter(user)
     THEN presses' = Append(presses, [user |-> user, customId |-> id, pc |-> "defer"])
     ELSE UNCHANGED presses
  /\ UNCHANGED <<sideVars, confVars, collectVars, endVars, gens, trackerVars, sent, preview,
                 buttonCollector, archived, procVars, envVars>>

\* a button of the review message is pressed
Press(user, id) ==
  /\ Len(DecisionPresses) < MaxPresses
  /\ id \in preview.components
  /\ Interaction(user, id)

SetPress(p, pc) == presses' = [presses EXCEPT ![p].pc = pc]

\* deferUpdate has settled (it is outside the try); then the switch
PressDeferred(p, out) ==
  /\ ~exited
  /\ event' = NoEvent
  /\ Fault(out)
  /\ p \in 1..Len(presses)
  /\ presses[p].pc = "defer"
  /\ CASE out = "fail" ->
            /\ SetPress(p, "rejected")
            /\ unhandled' = unhandled + 1
            /\ UNCHANGED <<trackerVars, preview, buttonCollector>>
       [] out = "ok" /\ presses[p].customId = "confirm_issues" ->
            /\ ButtonEnd
            /\ StartRun(PressCaller(p), generatedIssues)
            /\ SetPress(p, "create")
            /\ UNCHANGED unhandled
       [] out = "ok" /\ presses[p].customId = "edit" ->
            /\ SetPress(p, "sendAsk")
            /\ UNCHANGED <<trackerVars, preview, buttonCollector, unhandled>>
       [] out = "ok" /\ presses[p].customId = "cancel_issues" ->
            /\ ButtonEnd
            /\ SetPress(p, "sendCancel")
            /\ UNCHANGED <<trackerVars, unhandled>>
  /\ UNCHANGED <<sideVars, confVars, collectVars, endVars, gens, sent, archived, exited>>

\* createIssues of the confirm case has settled; its error goes to the catch
PressAfterCreate(p) ==
  /\ ~exited
  /\ event' = NoEvent
  /\ p \in 1..Len(presses)
  /\ presses[p].pc = "create"
  /\ LET run == runs[RunOf(PressCaller(p))] IN
     /\ run.pc \in {"returned", "threw"}
     /\ SetPress(p, IF run.pc = "threw" THEN "sendError" ELSE "sendSuccess")
  /\ UNCHANGED <<sideVars, confVars, collectVars, endVars, gens, trackerVars, sent, preview,
                 buttonCollector, archived, procVars, envVars>>

\* a send of the button handler inside its try: success embed or cancel notice
PressSend(p, out) ==
  /\ ~exited
  /\ event' = NoEvent
  /\ Fault(out)
  /\ p \in 1..Len(presses)
  /\ presses[p].pc \in {"sendSuccess", "sendCancel"}
  /\ IF out = "ok"
     THEN /\ Send(IF presses[p].pc = "sendSuccess"
                                  THEN SuccessNote(runs[RunOf(PressCaller(p))])
                                  ELSE Note("canceled", 0))
          /\ SetPress(p, IF isDM THEN "done" ELSE "archive")
     ELSE /\ SetPress(p, "sendError")
          /\ UNCHANGED sent
  /\ UNCHANGED <<sideVars, confVars, collectVars, endVars, gens, trackerVars, preview,
                 buttonCollector, archived, procVars>>

\* thread.setArchived(true) of the confirm and cancel cases
PressArchive(p, out) ==
  /\ ~exited
  /\ event' = NoEvent
  /\ Fault(out)
  /\ p \in 1..Len(presses)
  /\ presses[p].pc = "archive"
  /\ IF out = "ok"
     THEN SetPress(p, "done") /\ archived' = TRUE
     ELSE SetPress(p, "sendError") /\ UNCHANGED archived
  /\ UNCHANGED <<sideVars, confVars, collectVars, endVars, gens, trackerVars, sent, preview,
                 buttonCollector, procVars>>

\* catch (error): collectorChannel.send('Error: ...')
PressSendError(p, out) ==
  /\ ~exited
  /\ event' = NoEvent
  /\ Fault(out)
  /\ p \in 1..Len(presses)
  /\ presses[p].pc = "sendError"
  /\ IF out = "ok"
     THEN /\ Send(Note("error", 0))
          /\ SetPress(p, "done")
          /\ UNCHANGED unhandled
     ELSE /\ SetPress(p, "rejected")
          /\ unhandled' = unhandled + 1
          /\ UNCHANGED sent
  /\ UNCHANGED <<sideVars, confVars, collectVars, endVars, gens, trackerVars, preview,
                 buttonCollector, archived, exited>>

\* (mutant: the timeout is handled like the cancel button)
ReviewTimeout_cancels ==
  /\ ~exited
  /\ event' = NoEvent
  /\ buttonCollector = "open"
  /\ ButtonEnd
  /\ Send(Note("canceled", 0))
  /\ UNCHANGED <<sideVars, confVars, collectVars, endVars, gens, trackerVars, presses,
                 archived, procVars, envVars>>

\* the button collector's timer (time: 300_000) fires
ReviewTimeout ==
  /\ ~exited
  /\ event' = NoEvent
  /\ buttonCollector = "open"
  /\ ButtonEnd
  /\ UNCHANGED <<sideVars, confVars, collectVars, endVars, gens, trackerVars, sent, presses,
                 archived, procVars, envVars>>

\* previewMessage.edit({ components: [] }) of buttonCollector.on('end')
ClearButtons(out) ==
  /\ ~exited
  /\ event' = NoEvent
  /\ Fault(out)
  /\ preview.clearing
  /\ IF out = "ok"
     THEN /\ preview' = [preview EXCEPT !.clearing = FALSE, !.components = {}]
          /\ UNCHANGED unhandled
     ELSE /\ preview' = [preview EXCEPT !.clearing = FALSE]
          /\ unhandled' = unhandled + 1
  /\ UNCHANGED <<sideVars, confVars, collectVars, endVars, gens, trackerVars, sent,
                 buttonCollector, presses, archived, exited>>

\* ----------------------------------------------------------------- process
\* the logger is created with handleRejections: true (and exitOnError left
\* at its default): an unhandled rejection is logged and the process exits
ProcessExit ==
  /\ ~exited
  /\ event' = NoEvent
  /\ unhandled > 0
  /\ exited' = TRUE
  /\ UNCHANGED <<sideVars, confVars, collectVars, endVars, gens, trackerVars, sent,
                 reviewVars, archived, unhandled, envVars>>

Next ==
  \/ \E m \in Msgs(isDM, Len(handlers) + 1) : Message(m)
  \/ \E i \in 1..Len(handlers), out \in Outcomes : HandlerResume(i, out)
  \/ CollectTimeout
  \/ \E g \in 1..Len(gens), f \in Outcomes, w \in Outcomes : GenImage(g, f, w)
  \/ \E g \in 1..Len(gens) : GenBuild(g)
  \/ \E g \in 1..Len(gens), out \in Outcomes : GenRequest(g, out)
  \/ \E g \in 1..Len(gens), out \in Outcomes : GenStatusSend(g, out)
  \/ \E g \in 1..Len(gens), out \in Outcomes, doc \in Docs : GenStream(g, out, doc)
  \/ \E g \in 1..Len(gens), out \in Outcomes : GenCompleteEdit(g, out)
  \/ \E g \in 1..Len(gens), out \in Outcomes : GenFailEdit(g, out)
  \/ \E r \in 1..Len(runs), out \in Outcomes : CallReturn(r, out)
  \/ EndAfterGen
  \/ EndAfterCreate
  \/ \E out \in Outcomes : EndSendSuccess(out)
  \/ \E out \in Outcomes : EndArchive(out)
  \/ \E out \in Outcomes : EndSendPreview(out)
  \/ \E u \in Pressers(isDM), id \in ReviewRow : Press(u, id)
  \/ \E p \in 1..Len(presses), out \in Outcomes : PressDeferred(p, out)
  \/ \E p \in 1..Len(presses) : PressAfterCreate(p)
  \/ \E p \in 1..Len(presses), out \in Outcomes : PressSend(p, out)
  \/ \E p \in 1..Len(presses), out \in Outcomes : PressArchive(p, out)
  \/ \E p \in 1..Len(presses), out \in Outcomes : PressSendError(p, out)
  \/ ReviewTimeout
  \/ \E out \in Outcomes : ClearButtons(out)
  \/ ProcessExit

Spec == Init /\ [][Next]_vars

\* ------------------------------------------------- case 'edit' of the switch
MaxEdits == 2         \* interactions delivered in a review that takes 'edit' 

EditCaller(e) == <<"edit", e>>

\* `USER EDIT REQUEST: ${editMsg.content}`
EditTexts == {"", Fragments[2]}
Tagged == "" :> "USER EDIT REQUEST: " @@ Fragments[2] :> "USER EDIT REQUEST: b"
          @@ "!done" :> "USER EDIT REQUEST: !done"

\* the messages that can be posted while an edit window is open
EditMsgs(dm) == {[author |-> Author(u), content |-> c,
                  attachments |-> Attachments(2, k)] :
                   u \in Posters(dm), c \in EditTexts, k \in 0..MaxAttachments}

\* filter: m => m.author.id === interaction.user.id
EditFilter(m) == m.author.id = OwnerId

\* createMessageCollector({ filter, time: 120_000, max: 1 }) of press p
NewEdit(p) == [press |-> p, collector |-> "open", pc |-> "none", content |-> "",
               issues |-> NoIssues]

\* an interaction with customId 'edit' on the review message reaches the
\* button collector
EditDecision(user) ==
  /\ Len(presses) < MaxEdits
  /\ Interaction(user, "edit")

\* the send of 'What changes would you like?' has settled: the edit window
\* is opened and the button handler is over, or the catch takes the error
PressAsk(p, out) ==
  /\ ~exited
  /\ event' = NoEvent
  /\ Fault(out)
  /\ p \in 1..Len(presses)
  /\ presses[p].pc = "sendAsk"
  /\ IF out = "ok"
     THEN /\ Send(Note("askEdit", 0))
          /\ edits' = Append(edits, NewEdit(p))
          /\ SetPress(p, "done")
     ELSE /\ SetPress(p, "sendError")
          /\ UNCHANGED <<sent, edits>>
  /\ UNCHANGED <<confVars, collectVars, endVars, gens, trackerVars, preview,
                 buttonCollector, archived, procVars, listing, asideVars>>

OpenEdits == {e \in 1..Len(edits) : edits[e].collector = "open"}

\* editCollector.on('collect') up to its first await: every open edit
\* window collects the message (max: 1 ends the window) and its handler
\* pushes the tagged text
Collected(ed, m) == [ed EXCEPT !.collector = "ended", !.pc = "sendRegen",
                               !.content = m.content]

\* a message is posted in the channel while an edit window listens on it
EditMessage(m) ==
  /\ ~exited
  /\ event' = MessageEvent(m)
  /\ OpenEdits # {}
  /\ m \in EditMsgs(isDM)
  /\ IF EditFilter(m)
     THEN /\ edits' = [e \in 1..Len(edits) |->
                         IF e \in OpenEdits THEN Collected(edits[e], m) ELSE edits[e]]
          /\ assets' = [assets EXCEPT !.text =
                          assets.text \o [i \in 1..Cardinality(OpenEdits) |->
                                            Tagged[m.content]]]
     ELSE UNCHANGED <<edits, assets>>
  /\ UNCHANGED <<confVars, collector, handlers, endVars, gens, trackerVars, sent,
                 reviewVars, archived, procVars, envVars, listing, asideVars>>

\* the timer of an edit window (time: 120_000) fires
EditTimeout(e) ==
  /\ ~exited
  /\ event' = NoEvent
  /\ e \in OpenEdits
  /\ edits' = [edits EXCEPT ![e].collector = "ended"]
  /\ UNCHANGED <<sessionVars, envVars, listing, asideVars>>

\* the send of 'Regenerating issues ...' has settled: generateIssueContent
\* is called with the bundle; the handler has no catch
EditRegenerate(e, out) ==
  /\ ~exited
  /\ event' = NoEvent
  /\ Fault(out)
  /\ e \in 1..Len(edits)
  /\ edits[e].pc = "sendRegen"
  /\ IF out = "ok"
     THEN /\ Send(Note("regenerating", 0))
          /\ gens' = Append(gens, NewGen(EditCaller(e), assets))
          /\ edits' = [edits EXCEPT ![e].pc = "gen"]
          /\ UNCHANGED unhandled
     ELSE /\ edits' = [edits EXCEPT ![e].pc = "rejected"]
          /\ unhandled' = unhandled + 1
          /\ UNCHANGED <<sent, gens>>
  /\ UNCHANGED <<confVars, collectVars, endVars, trackerVars, reviewVars, archived,
                 exited, listing, asideVars>>

\* generateIssueContent has settled: its result goes to
\* assets.generatedIssues and the embeds and the row are built from it
EditAfterGen(e) ==
  /\ ~exited
  /\ event' = NoEvent
  /\ e \in 1..Len(edits)
  /\ edits[e].pc = "gen"
  /\ LET gn == gens[GenOf(EditCaller(e))] IN
     /\ gn.pc \in {"returned", "threw"}
     /\ IF gn.pc = "threw"
        THEN /\ edits' = [edits EXCEPT ![e].pc = "rejected"]
             /\ unhandled' = unhandled + 1
             /\ UNCHANGED assets
        ELSE /\ assets' = [assets EXCEPT !.generatedIssues = gn.data]
             /\ edits' = [edits EXCEPT ![e].pc = "editPreview", ![e].issues = gn.data]
             /\ UNCHANGED unhandled
  /\ UNCHANGED <<confVars, collector, handlers, endVars, gens, trackerVars, sent,
                 reviewVars, archived, exited, envVars, listing, asideVars>>

\* previewMessage.edit({ content: '**Updated Preview**', embeds, components })
EditPreview(e, out) ==
  /\ ~exited
  /\ event' = NoEvent
  /\ Fault(out)
  /\ e \in 1..Len(edits)
  /\ edits[e].pc = "editPreview"
  /\ IF out = "ok"
     THEN /\ preview' = [preview EXCEPT !.content = "Updated Preview",
                                        !.components = ReviewRow,
                                        !.issues = edits[e].issues,
                                        !.edits = 1]
          /\ edits' = [edits EXCEPT ![e].pc = "done"]
          /\ UNCHANGED unhandled
     ELSE /\ edits' = [edits EXCEPT ![e].pc = "rejected"]
          /\ unhandled' = unhandled + 1
          /\ UNCHANGED preview
  /\ UNCHANGED <<confVars, collectVars, endVars, gens, trackerVars, sent,
                 buttonCollector, presses, archived, exited, listing, asideVars>>

\* the session in review: the invoking user posted one message with a text
\* and an attachment, closed the window, and the batch of the generation is
\* shown with its buttons
FirstMessage == [author |-> Author(OwnerId), content |-> Fragments[1],
                 attachments |-> Attachments(1, 1)]
FirstDoc == Doc(TRUE, TRUE, <<IssueA, IssueB, IssueC>>)
FirstBatch == ParsedData(FirstDoc)
FirstAssets == [text |-> <<Fragments[1]>>, images |-> Attachments(1, 1),
                generatedIssues |-> FirstBatch]

EditInit ==
  /\ isDM \in BOOLEAN
  /\ wantsPreview = TRUE
  /\ collector = "ended"
  /\ assets = FirstAssets
  /\ handlers = <<[NewHandler(FirstMessage, [text |-> <<>>, images |-> <<>>])
                     EXCEPT !.pc = "done", !.k = 1]>>
  /\ endPc = "done"
  /\ generatedIssues = FirstBatch
  /\ gens = <<[NewGen(EndCaller, FirstAssets) EXCEPT
                 !.pc = "returned", !.k = 1, !.kept = FirstAssets.images,
                 !.text = FirstAssets.text, !.doc = FirstDoc, !.data = FirstBatch,
                 !.status = "complete", !.shown = TRUE]>>
  /\ runs = <<>>
  /\ tracker = <<>>
  /\ calls = <<>>
  /\ sent = SetToBag({Note("addedImage", 0), Note("addedText", 0),
                      Note("status", 0), Note("preview", 3)})
  /\ preview = [exists |-> TRUE, content |-> "Review these issues",
                components |-> ReviewRow, issues |-> FirstBatch,
                edits |-> 0, clearing |-> FALSE]
  /\ buttonCollector = "open"
  /\ presses = <<>>
  /\ archived = FALSE
  /\ unhandled = 0
  /\ exited = FALSE
  /\ faults = MaxFaults
  /\ event = NoEvent
  /\ edits = <<>>
  /\ listing = NoListing
  /\ stream = NoStream
  /\ command = NoCommand
  /\ pair = NoPair

\* the documents a regeneration can stream
EditDocs == {Malformed, Doc(TRUE, TRUE, <<IssueB>>)}

EditNext ==
  \/ \E u \in Pressers(isDM) : EditDecision(u)
  \/ /\ Len(presses) < MaxEdits
     /\ \E u \in Pressers(isDM), id \in ReviewRow : Press(u, id)
  \/ \E p \in 1..Len(presses), out \in Outcomes : PressDeferred(p, out)
  \/ \E p \in 1..Len(presses), out \in Outcomes : PressAsk(p, out)
  \/ \E p \in 1..Len(presses) : PressAfterCreate(p)
  \/ \E p \in 1..Len(presses), out \in Outcomes : PressSend(p, out)
  \/ \E p \in 1..Len(presses), out \in Outcomes : PressArchive(p, out)
  \/ \E p \in 1..Len(presses), out \in Outcomes : PressSendError(p, out)
  \/ ReviewTimeout
  \/ \E out \in Outcomes : ClearButtons(out)
  \/ \E m \in EditMsgs(isDM) : EditMessage(m)
  \/ \E e \in 1..Len(edits) : EditTimeout(e)
  \/ \E e \in 1..Len(edits), out \in Outcomes : EditRegenerate(e, out)
  \/ \E g \in 1..Len(gens), f \in Outcomes, w \in Outcomes : GenImage(g, f, w)
  \/ \E g \in 1..Len(gens) : GenBuild(g)
  \/ \E g \in 1..Len(gens), out \in Outcomes : GenRequest(g, out)
  \/ \E g \in 1..Len(gens), out \in Outcomes : GenStatusSend(g, out)
  \/ \E g \in 1..Len(gens), out \in Outcomes, doc \in EditDocs : GenStream(g, out, doc)
  \/ \E g \in 1..Len(gens), out \in Outcomes : GenCompleteEdit(g, out)
  \/ \E g \in 1..Len(gens), out \in Outcomes : GenFailEdit(g, out)
  \/ \E e \in 1..Len(edits) : EditAfterGen(e)
  \/ \E e \in 1..Len(edits), out \in Outcomes : EditPreview(e, out)
  \/ \E r \in 1..Len(runs), out \in Outcomes : CallReturn(r, out)
  \/ ProcessExit

EditSpec == EditInit /\ [][EditNext]_vars

\* ----------------------------------------- generateIssueContent, by itself
MaxGenFaults == 3     \* external calls that fail during one generation

\* the invoking user posted MaxMsgs messages with one attachment each and
\* no text, and the window has closed
ImageMessage(n) == [author |-> Author(OwnerId), content |-> "",
                    attachments |-> Attachments(n, 1)]
ImagesBefore(n) == [i \in 1..(n - 1) |-> Url(i, 1)]
ImageAssets == [text |-> <<>>, images |-> ImagesBefore(MaxMsgs + 1),
                generatedIssues |-> NoIssues]

GenInit ==
  /\ isDM \in BOOLEAN
  /\ wantsPreview \in BOOLEAN
  /\ collector = "ended"
  /\ assets = ImageAssets
  /\ handlers = [n \in 1..MaxMsgs |->
                   [NewHandler(ImageMessage(n),
                               [text |-> <<>>, images |-> ImagesBefore(n)])
                      EXCEPT !.pc = "done", !.k = 1]]
  /\ endPc = "gen"
  /\ generatedIssues = NoIssues
  /\ gens = <<NewGen(EndCaller, ImageAssets)>>
  /\ runs = <<>>
  /\ tracker = <<>>
  /\ calls = <<>>
  /\ sent = [note \in {Note("addedImage", 0)} |-> MaxMsgs]
  /\ preview = NoPreview
  /\ buttonCollector = "none"
  /\ presses = <<>>
  /\ archived = FALSE
  /\ unhandled = 0
  /\ exited = FALSE
  /\ faults = MaxGenFaults
  /\ event = NoEvent
  /\ edits = <<>>
  /\ listing = NoListing
  /\ stream = NoStream
  /\ command = NoCommand
  /\ pair = NoPair

GenNext ==
  \/ \E f \in Outcomes, w \in Outcomes : GenImage(1, f, w)
  \/ GenBuild(1)
  \/ \E out \in Outcomes : GenRequest(1, out)
  \/ \E out \in Outcomes : GenStatusSend(1, out)
  \/ \E out \in Outcomes, doc \in Docs : GenStream(1, out, doc)
  \/ \E out \in Outcomes : GenCompleteEdit(1, out)
  \/ \E out \in Outcomes : GenFailEdit(1, out)
  \/ EndAfterGen

GenSpec == GenInit /\ [][GenNext]_vars

\* ----------------------------------- the loop of handleAIStream, by itself
MaxChunks == 4        \* chunks of one stream
Cadence == 15

\* the lengths of chunk.choices[0]?.delta?.content || '' of the chunks
ChunkSizes == {0, 1, 7, 8, 15}
RECURSIVE ChunkLists(_)
ChunkLists(n) ==
  IF n = 0 THEN {<<>>}
  ELSE LET shorter == ChunkLists(n - 1)
       IN shorter \cup {Append(a, c) : a \in {b \in shorter : Len(b) = n - 1},
                                       c \in ChunkSizes}

\* updateStatusMessage: content.length % 15 === 0
Republishes(before, after) == after % Cadence = 0

\* handleAIStream is given a stream that will deliver these chunks
StreamStart(chunks) ==
  /\ stream.pc = "idle"
  /\ stream' = [stream EXCEPT !.pc = "loop", !.chunks = chunks]
  /\ event' = NoEvent
  /\ UNCHANGED <<sessionVars, envVars, edits, listing, command, pair>>

\* one turn of the for await loop: the chunk's content is added to
\* contentBuffer and updateStatusMessage is awaited; a rejected edit ends
\* the loop in the catch
StreamChunk(out) ==
  /\ stream.pc = "loop"
  /\ stream.chunks # <<>>
  /\ Fault(out)
  /\ event' = NoEvent
  /\ LET len == stream.len + Head(stream.chunks) IN
     IF Republishes(stream.len, len)
     THEN stream' = [stream EXCEPT !.chunks = Tail(stream.chunks), !.len = len,
                                   !.edits = IF out = "ok" THEN stream.edits + 1
                                                           ELSE stream.edits,
                                   !.pc = IF out = "ok" THEN "loop" ELSE "failed"]
     ELSE /\ out = "ok"
          /\ stream' = [stream EXCEPT !.chunks = Tail(stream.chunks), !.len = len]
  /\ UNCHANGED <<sessionVars, edits, listing, command, pair>>

\* the stream is exhausted
StreamEnd ==
  /\ stream.pc = "loop"
  /\ stream.chunks = <<>>
  /\ stream' = [stream EXCEPT !.pc = "complete"]
  /\ event' = NoEvent
  /\ UNCHANGED <<sessionVars, envVars, edits, listing, command, pair>>

StreamNext ==
  \/ /\ stream.pc = "idle"
     /\ \E chunks \in ChunkLists(MaxChunks) : StreamStart(chunks)
  \/ \E out \in Outcomes : StreamChunk(out)
  \/ StreamEnd

StreamSpec == Init /\ [][StreamNext]_vars

\* ------------------------------------- the collection window, by itself
\* the collector's timer is a timer of the process: it fires if the process
\* lives
OpenNext ==
  \/ \E m \in Msgs(isDM, Len(handlers) + 1) : Message(m)
  \/ \E i \in 1..Len(handlers), out \in Outcomes : HandlerResume(i, out)
  \/ CollectTimeout
  \/ ProcessExit

OpenSpec == Init /\ [][OpenNext]_vars /\ WF_vars(CollectTimeout)

\* ------------------------------------------- the end signal, by itself
\* texts around the end signal: its spellings, and texts that contain it
DoneTexts == {"", "!done", "!DONE", "!Done", " !done ", "ok !DONE"}
DoneMsgs(dm, n) == {[author |-> Author(u), content |-> c,
                     attachments |-> Attachments(n, k)] :
                      u \in Posters(dm), c \in DoneTexts, k \in 0..MaxAttachments}

DoneMessage(m) ==
  /\ collector = "open"
  /\ Len(handlers) < MaxMsgs
  /\ m \in DoneMsgs(isDM, Len(handlers) + 1)
  /\ Deliver(m)

DoneNext ==
  \/ \E m \in DoneMsgs(isDM, Len(handlers) + 1) : DoneMessage(m)
  \/ \E i \in 1..Len(handlers), out \in Outcomes : HandlerResume(i, out)
  \/ CollectTimeout

DoneSpec == Init /\ [][DoneNext]_vars

\* ------------------------------------------- the review window, by itself
MaxDecisions == 2     \* presses of the row's buttons during one review

\* a button of the review message is pressed, possibly while the handler of
\* an earlier press is still suspended
Decide(user, id) ==
  /\ Len(presses) < MaxDecisions
  /\ id \in preview.components
  /\ Interaction(user, id)

ReviewNext ==
  \/ \E u \in Pressers(isDM), id \in ReviewRow : Decide(u, id)
  \/ \E p \in 1..Len(presses), out \in Outcomes : PressDeferred(p, out)
  \/ \E p \in 1..Len(presses) : PressAfterCreate(p)
  \/ \E p \in 1..Len(presses), out \in Outcomes : PressSend(p, out)
  \/ \E p \in 1..Len(presses), out \in Outcomes : PressArchive(p, out)
  \/ \E p \in 1..Len(presses), out \in Outcomes : PressSendError(p, out)
  \/ \E r \in 1..Len(runs), out \in Outcomes : CallReturn(r, out)
  \/ ReviewTimeout
  \/ \E out \in Outcomes : ClearButtons(out)
  \/ ProcessExit

ReviewSpec == EditInit /\ [][ReviewNext]_vars

\* ----------------------------------------------------- validator, by itself
\* The documents handleAIStream can have accumulated: candidates around the
\* limits of the schema (a title of 9 or 10 characters, a body of 99 or 100,
\* no labels key or labels of 1, 2, 20 and 21 characters, with or without a
\* key the schema does not name); the candidate at position i has a text of
\* its own.
MaxCands == 2

LabelOptions == {[has |-> FALSE, ls |-> <<>>],
                 [has |-> TRUE, ls |-> <<>>],
                 [has |-> TRUE, ls |-> <<MinLabel - 1>>],
                 [has |-> TRUE, ls |-> <<MinLabel, MaxLabel>>],
                 [has |-> TRUE, ls |-> <<MaxLabel + 1>>]}

CandsAt(i) ==
  {[Cand(Fragments[i], t, b, l.has, l.ls) EXCEPT !.extra = x] :
     t \in {MinTitle - 1, MinTitle}, b \in {MinBody - 1, MinBody},
     l \in LabelOptions, x \in BOOLEAN}

RECURSIVE Arrays(_)
Arrays(n) ==
  IF n = 0 THEN {<<>>}
  ELSE LET shorter == Arrays(n - 1)
       IN shorter \cup {Append(a, c) : a \in {b \in shorter : Len(b) = n - 1},
                                       c \in CandsAt(n)}

ValDocs == {Malformed, Doc(TRUE, FALSE, <<>>), NotArray} \cup
           {Doc(TRUE, TRUE, a) : a \in Arrays(MaxCands)}

\* a session whose generation has its status message and consumes the stream
ValInit ==
  /\ isDM \in BOOLEAN
  /\ wantsPreview \in BOOLEAN
  /\ collector = "ended"
  /\ assets = [text |-> <<Fragments[1]>>, images |-> <<>>,
               generatedIssues |-> NoIssues]
  /\ handlers = <<>>
  /\ endPc = "gen"
  /\ generatedIssues = NoIssues
  /\ gens = <<[NewGen(EndCaller, assets) EXCEPT !.pc = "stream",
                                                !.text = assets.text,
                                                !.status = "starting"]>>
  /\ runs = <<>>
  /\ tracker = <<>>
  /\ calls = <<>>
  /\ sent = SetToBag({Note("status", 0)})
  /\ preview = NoPreview
  /\ buttonCollector = "none"
  /\ presses = <<>>
  /\ archived = FALSE
  /\ unhandled = 0
  /\ exited = FALSE
  /\ faults = MaxFaults
  /\ event = NoEvent
  /\ edits = <<>>
  /\ listing = NoListing
  /\ stream = NoStream
  /\ command = NoCommand
  /\ pair = NoPair

\* handleAIStream from the stream on, then the 'end' handler takes the result
ValNext ==
  \/ /\ gens[1].pc = "stream"
     /\ \E out \in Outcomes, doc \in ValDocs : GenStream(1, out, doc)
  \/ \E out \in Outcomes : GenCompleteEdit(1, out)
  \/ \E out \in Outcomes : GenFailEdit(1, out)
  \/ EndAfterGen

ValSpec == ValInit /\ [][ValNext]_vars

\* ------------------------------------------------------------- /list-issues
MaxItems == 3

\* the options of the board's Status field: a board has some of these
OptionNames == <<"Backlog", "In Progress", "Done">>
OptionId == "Backlog" :> "opt-1" @@ "In Progress" :> "opt-2" @@ "Done" :> "opt-3"
Option(name) == [id |-> OptionId[name], name |-> name]
Undefined == ""
Boards == {SelectSeq([i \in 1..Len(OptionNames) |-> Option(OptionNames[i])],
                     LAMBDA o : o.name \in names) : names \in SUBSET {"Backlog", "In Progress", "Done"}}

\* fieldValueByName(name: "Status") of an item: null, or the option it has
NoValue == [name |-> Undefined, optionId |-> Undefined]
ValueOf(o) == [name |-> o.name, optionId |-> o.id]
Values(options) == {NoValue} \cup {ValueOf(options[i]) : i \in 1..Len(options)}

\* the nodes of the items query: node i, with or without linked issue content
NodeAt(i, content, value) == [n |-> i, content |-> content, fieldValueByName |-> value]
RECURSIVE NodeLists(_, _)
NodeLists(n, options) ==
  IF n = 0 THEN {<<>>}
  ELSE LET shorter == NodeLists(n - 1, options)
       IN shorter \cup {Append(a, NodeAt(n, c, v)) :
                          a \in {b \in shorter : Len(b) = n - 1},
                          c \in BOOLEAN, v \in Values(options)}

\* statusField.options.find(o => o.name === name), and ?.id / ?.name of it
Find(options, name) == SelectSeq(options, LAMBDA o : o.name = name)
IdOf(found) == IF found = <<>> THEN Undefined ELSE found[1].id
NameOf(found) == IF found = <<>> THEN Undefined ELSE found[1].name

\* (mutant: the status name is compared with the option's id)
Keeps_byId(item, doneOption) ==
  LET status == item.fieldValueByName.name
  IN status # Undefined /\ status # IdOf(doneOption)

\* the filter of processProjectItems: status && status !== doneOption?.name
Keeps(item, doneOption) ==
  LET status == item.fieldValueByName.name
  IN status # Undefined /\ status # NameOf(doneOption)

\* the comparator of processProjectItems
Compare(a, b, backlogOption) ==
  IF a.fieldValueByName.optionId = IdOf(backlogOption) THEN -1
  ELSE IF b.fieldValueByName.optionId = IdOf(backlogOption) THEN 1
  ELSE 0

\* Array.prototype.sort of the engine discord.js 14 runs on (V8's TimSort),
\* for an array below the minimum run length: the run that starts the array
\* is counted, each element being compared with the one before it, and
\* reversed if it is strictly descending ...
RECURSIVE RunLength(_, _, _, _)
RunLength(arr, idx, descending, opt) ==
  IF idx > Len(arr) THEN idx - 1
  ELSE LET order == Compare(arr[idx], arr[idx - 1], opt)
       IN IF descending = (order < 0)
          THEN RunLength(arr, idx + 1, descending, opt)
          ELSE idx - 1

Reverse(s) == [i \in 1..Len(s) |-> s[Len(s) + 1 - i]]

CountAndMakeRun(arr, opt) ==
  IF Len(arr) < 2 THEN [arr |-> arr, run |-> Len(arr)]
  ELSE LET descending == Compare(arr[2], arr[1], opt) < 0
           run == RunLength(arr, 3, descending, opt)
       IN [arr |-> IF descending
                   THEN Reverse(SubSeq(arr, 1, run)) \o SubSeq(arr, run + 1, Len(arr))
                   ELSE arr,
           run |-> run]

\* ... and the elements after the run are inserted one by one at the place
\* a binary search finds among the elements before them
RECURSIVE Search(_, _, _, _, _)
Search(arr, pivot, left, right, opt) ==
  IF left >= right THEN left
  ELSE LET mid == left + ((right - left) \div 2)
       IN IF Compare(pivot, arr[mid], opt) < 0
          THEN Search(arr, pivot, left, mid, opt)
          ELSE Search(arr, pivot, mid + 1, right, opt)

RECURSIVE BinaryInsertionSort(_, _, _)
BinaryInsertionSort(arr, start, opt) ==
  IF start > Len(arr) THEN arr
  ELSE LET pivot == arr[start]
           left == Search(arr, pivot, 1, start, opt)
           placed == SubSeq(arr, 1, left - 1) \o <<pivot>> \o
                     SubSeq(arr, left, start - 1) \o SubSeq(arr, start + 1, Len(arr))
       IN BinaryInsertionSort(placed, start + 1, opt)

Sort(arr, opt) ==
  LET counted == CountAndMakeRun(arr, opt)
  IN BinaryInsertionSort(counted.arr, counted.run + 1, opt)

\* processProjectItems(items, statusField)
processProjectItems(items, options) ==
  LET backlogOption == Find(options, "Backlog")
      doneOption == Find(options, "Done")
  IN Sort(SelectSeq(items, LAMBDA item : Keeps(item, doneOption)), backlogOption)

\* the embeds of the reply: an embed is pushed, and a new one begun, after
\* every PageSize-th item that is not the last; the embed in hand is pushed
\* at the end
PageSize == 4

\* (mutant: an embed is pushed after every PageSize-th item)
Splits_every(index, n) == index % PageSize = 0

\* (index + 1) % 4 === 0 && index !== sortedItems.length - 1, index from 0
Splits(index, n) == index % PageSize = 0 /\ index # n

RECURSIVE AddFields(_, _, _, _)
AddFields(sortedItems, index, issueEmbeds, currentEmbed) ==
  IF index > Len(sortedItems) THEN Append(issueEmbeds, currentEmbed)
  ELSE LET filled == Append(currentEmbed, sortedItems[index])
       IN IF Splits(index, Len(sortedItems))
          THEN AddFields(sortedItems, index + 1, Append(issueEmbeds, filled), <<>>)
          ELSE AddFields(sortedItems, index + 1, issueEmbeds, filled)

Embeds(sortedItems) == AddFields(sortedItems, 1, <<>>, <<>>)

\* the command is invoked: listOpenIssues has the project and its status
\* field and awaits the items query, which will answer with nodes
ListCommand(options, nodes) ==
  /\ listing.pc = "idle"
  /\ listing' = [listing EXCEPT !.pc = "items", !.options = options,
                                !.nodes = nodes]
  /\ event' = NoEvent
  /\ UNCHANGED <<sessionVars, envVars, edits, asideVars>>

\* getProjectItems resolves with the nodes that have content,
\* listOpenIssues returns processProjectItems of them and the handler builds
\* the embeds of its reply; or the query rejects
GetProjectItems(out) ==
  /\ listing.pc = "items"
  /\ Fault(out)
  /\ event' = NoEvent
  /\ IF out = "ok"
     THEN LET items == SelectSeq(listing.nodes, LAMBDA item : item.content)
          IN listing' = [listing EXCEPT
                           !.pc = "reply", !.items = items,
                           !.out = processProjectItems(items, listing.options),
                           !.embeds =
                             Embeds(processProjectItems(items, listing.options))]
     ELSE listing' = [listing EXCEPT !.pc = "error"]
  /\ UNCHANGED <<sessionVars, edits, asideVars>>

\* interaction.reply with the embeds; when it rejects, the outer catch
\* replies with the error, and nothing catches a rejection of that reply
ListReply(out) ==
  /\ listing.pc \in {"reply", "error"}
  /\ Fault(out)
  /\ event' = NoEvent
  /\ listing' = [listing EXCEPT !.pc = IF out = "ok"
                                       THEN IF listing.pc = "reply" THEN "replied"
                                                                    ELSE "failed"
                                       ELSE IF listing.pc = "reply" THEN "error"
                                                                    ELSE "rejected"]
  /\ unhandled' = IF out = "fail" /\ listing.pc = "error" THEN unhandled + 1
                                                          ELSE unhandled
  /\ UNCHANGED <<confVars, collectVars, endVars, gens, trackerVars, sent,
                 reviewVars, archived, exited, edits, asideVars>>

ListNext ==
  \/ /\ listing.pc = "idle"
     /\ \E options \in Boards :
          \E nodes \in NodeLists(MaxItems, options) : ListCommand(options, nodes)
  \/ \E out \in Outcomes : GetProjectItems(out)
  \/ \E out \in Outcomes : ListReply(out)

ListSpec == Init /\ [][ListNext]_vars

\* ------------------------------------------------ the listing's pages alone
MaxPageItems == 9

\* a board with n open items that all have the same status
FullBoard == [i \in 1..Len(OptionNames) |-> Option(OptionNames[i])]
PageNodes(n, name) == [i \in 1..n |-> NodeAt(i, TRUE, ValueOf(Option(name)))]

PageNext ==
  \/ /\ listing.pc = "idle"
     /\ \E n \in 0..MaxPageItems, name \in {"Backlog", "In Progress"} :
          ListCommand(FullBoard, PageNodes(n, name))
  \/ \E out \in Outcomes : GetProjectItems(out)
  \/ \E out \in Outcomes : ListReply(out)

PageSpec == Init /\ [][PageNext]_vars

\* ---------------------------------- the interactionCreate handler, by itself
\* the handler of /test and the set-up of /create-issue, up to the creation
\* of the message collector; /list-issues is the listing above
CommandNames == {"create-issue", "test"}
CmdAwaits == {"refuse", "thread", "threadFailed", "reply", "fetch", "followUp",
              "catch"}
CmdOver == {"collecting", "done", "failed", "rejected"}

\* a command interaction arrives: /create-issue in a guild channel that is
\* not text based is refused, in a guild channel a thread is created first
CmdInvoke(name, textBased) ==
  /\ command.pc = "idle"
  /\ listing.pc = "idle"
  /\ event' = NoEvent
  /\ command' = [command EXCEPT
                   !.name = name,
                   !.pc = IF name = "test" \/ isDM THEN "reply"
                          ELSE IF textBased THEN "thread" ELSE "refuse"]
  /\ UNCHANGED <<sessionVars, envVars, edits, listing, stream, pair>>

\* the handler's promise rejects: nothing catches it
CmdRejects ==
  /\ command' = [command EXCEPT !.pc = "rejected", !.error = TRUE]
  /\ unhandled' = unhandled + 1

\* the call the handler awaits (or returns) has settled
CmdStep(out) ==
  /\ ~exited
  /\ Fault(out)
  /\ event' = NoEvent
  /\ command.pc \in CmdAwaits
  /\ CASE command.pc = "refuse" ->
            \* return interaction.reply('only works in text channels')
            IF out = "ok"
            THEN /\ command' = [command EXCEPT !.pc = "done", !.replied = TRUE]
                 /\ UNCHANGED unhandled
            ELSE CmdRejects
       [] command.pc = "thread" ->
            \* await interaction.channel.threads.create, in its own try
            /\ command' = IF out = "ok"
                          THEN [command EXCEPT !.pc = "reply"]
                          ELSE [command EXCEPT !.pc = "threadFailed", !.error = TRUE]
            /\ UNCHANGED unhandled
       [] command.pc = "threadFailed" ->
            \* return interaction.reply('Failed to create thread!')
            IF out = "ok"
            THEN /\ command' = [command EXCEPT !.pc = "done", !.replied = TRUE,
                                               !.told = "generic"]
                 /\ UNCHANGED unhandled
            ELSE CmdRejects
       [] command.pc = "reply" ->
            \* await interaction.reply: the initial response, or 'Bot is operational!'
            /\ command' = IF out = "ok"
                          THEN [command EXCEPT
                                  !.replied = TRUE,
                                  !.pc = IF command.name = "test" THEN "followUp"
                                         ELSE IF isDM THEN "fetch" ELSE "collecting"]
                          ELSE [command EXCEPT !.pc = "catch", !.error = TRUE]
            /\ UNCHANGED unhandled
       [] command.pc = "fetch" ->
            \* await client.channels.fetch(interaction.channelId)
            /\ command' = IF out = "ok"
                          THEN [command EXCEPT !.pc = "collecting"]
                          ELSE [command EXCEPT !.pc = "catch", !.error = TRUE]
            /\ UNCHANGED unhandled
       [] command.pc = "followUp" ->
            \* await interaction.followUp('Latency: ...')
            /\ command' = IF out = "ok"
                          THEN [command EXCEPT !.pc = "done"]
                          ELSE [command EXCEPT !.pc = "catch", !.error = TRUE]
            /\ UNCHANGED unhandled
       [] command.pc = "catch" ->
            \* await interaction.reply({ content: `Error: ${error.message}` }):
            \* reply throws when the interaction has been replied to
            IF command.replied
            THEN out = "ok" /\ CmdRejects
            ELSE IF out = "ok"
            THEN /\ command' = [command EXCEPT !.pc = "failed", !.replied = TRUE,
                                               !.told = "text"]
                 /\ UNCHANGED unhandled
            ELSE CmdRejects
  /\ UNCHANGED <<confVars, collectVars, endVars, gens, trackerVars, sent, reviewVars,
                 archived, exited, edits, listing, stream, pair>>

CmdNext ==
  \/ \E name \in CommandNames, textBased \in BOOLEAN : CmdInvoke(name, textBased)
  \/ \E out \in Outcomes : CmdStep(out)
  \/ command.pc = "idle" /\ PageNext
  \/ ProcessExit

CmdSpec == Init /\ [][CmdNext]_vars

\* --------------------------------- two invocations of /create-issue together
\* Each invocation runs the interactionCreate handler once: wantsPreview,
\* assets and generatedIssues are constants of that run, and its collectors
\* are created on its own channel and on its own review message.  The
\* handlers are taken here without their acknowledgement sends, which touch
\* none of these.
MaxPosts == 2         \* messages posted in the conversations of the two

Sessions == {1, 2}
Invokers == {OwnerId, OtherId}
PairTexts == {Fragments[2], "!done"}
PairButtons == {"confirm_issues", "edit", "cancel_issues"}

\* collectorChannel of an invocation: the thread created for it, or the DM
\* channel of its user
ChannelOf(s, ss) == IF ss.dm THEN <<"dm", ss.user>> ELSE <<"thread", s>>
Channel(s) == ChannelOf(s, pair.sessions[s])
\* the users that can post in a channel
Members(c) == IF c[1] = "dm" THEN {c[2]} ELSE Invokers

\* (mutant: a collector is given the messages of every channel)
Hears_all(s, c) == TRUE

\* collectorChannel.createMessageCollector: the collector of invocation s
\* is given the messages of its channel
Hears(s, c) == Channel(s) = c

SetSession(s, ss, step) ==
  pair' = [pair EXCEPT !.sessions[s] = ss, !.step = step]

\* /create-issue is invoked
PairInvoke(s, user, dm, wants) ==
  /\ pair.sessions[s].state = "none"
  /\ s = 1 \/ pair.sessions[1].state # "none"
  /\ SetSession(s, [NoSession EXCEPT !.state = "open", !.user = user, !.dm = dm,
                                     !.wantsPreview = wants],
                [NoStep EXCEPT !.kind = "invoke", !.session = s])
  /\ event' = NoEvent
  /\ UNCHANGED <<sessionVars, envVars, edits, listing, stream, command>>

\* what the collectors of an invocation do with a message: the message
\* collector ends on the end signal and appends otherwise; an edit window
\* takes one message of the invoking user
Took(ss, user, content, urls) ==
  IF ss.state = "open"
  THEN IF toLowerCase(content) = "!done"
       THEN [ss EXCEPT !.state = "generating"]
       ELSE [ss EXCEPT !.images = ss.images \o urls,
                       !.text = Append(ss.text, content)]
  ELSE IF ss.state = "editing" /\ user = ss.user
  THEN [ss EXCEPT !.text = Append(ss.text, Tagged[content]),
                  !.state = "regenerating"]
  ELSE ss

\* a user posts a message in a channel
PairPost(c, user, content, k) ==
  /\ pair.posted < MaxPosts
  /\ user \in Members(c)
  /\ pair' = [sessions |-> [s \in Sessions |->
                              IF Hears(s, c)
                              THEN Took(pair.sessions[s], user, content,
                                        Attachments(pair.posted + 1, k))
                              ELSE pair.sessions[s]],
              step |-> [NoStep EXCEPT !.kind = "message", !.channel = c],
              posted |-> pair.posted + 1]
  /\ event' = NoEvent
  /\ UNCHANGED <<sessionVars, envVars, edits, listing, stream, command>>

\* the timer of the message collector or of the edit window fires
PairTimeout(s) ==
  /\ pair.sessions[s].state \in {"open", "editing"}
  /\ SetSession(s, [pair.sessions[s] EXCEPT
                      !.state = IF pair.sessions[s].state = "open"
                                THEN "generating" ELSE "review"],
                [NoStep EXCEPT !.kind = "timer", !.session = s])
  /\ event' = NoEvent
  /\ UNCHANGED <<sessionVars, envVars, edits, listing, stream, command>>

\* generateIssueContent of an invocation settles: the batch is stored and
\* shown for review or committed at once; an error ends the invocation
PairGenerated(s, ok) ==
  /\ pair.sessions[s].state \in {"generating", "regenerating"}
  /\ LET ss == pair.sessions[s]
         batch == IF ss.state = "generating" THEN FirstBatch
                                             ELSE ParsedData(Doc(TRUE, TRUE, <<IssueB>>))
     IN SetSession(s, IF ~ok THEN [ss EXCEPT !.state = "closed"]
                      ELSE [ss EXCEPT !.generatedIssues = batch,
                                      !.state = IF ss.wantsPreview \/
                                                   ss.state = "regenerating"
                                                THEN "review" ELSE "closed"],
                   [NoStep EXCEPT !.kind = "generated", !.session = s])
  /\ event' = NoEvent
  /\ UNCHANGED <<sessionVars, envVars, edits, listing, stream, command>>

\* a component interaction on the review message of an invocation
PairPress(s, user, id) ==
  /\ pair.sessions[s].state = "review"
  /\ user \in Members(Channel(s))
  /\ SetSession(s, IF user # pair.sessions[s].user THEN pair.sessions[s]
                   ELSE [pair.sessions[s] EXCEPT
                           !.state = IF id = "edit" THEN "editing" ELSE "closed"],
                [NoStep EXCEPT !.kind = "press", !.session = s])
  /\ event' = NoEvent
  /\ UNCHANGED <<sessionVars, envVars, edits, listing, stream, command>>

PairNext ==
  \/ \E s \in Sessions, u \in Invokers, dm \in BOOLEAN, p \in BOOLEAN :
       PairInvoke(s, u, dm, p)
  \/ /\ pair.posted < MaxPosts
     /\ \E s \in Sessions, u \in Invokers, c \in PairTexts, k \in 0..MaxAttachments :
          pair.sessions[s].state # "none" /\ PairPost(Channel(s), u, c, k)
  \/ \E s \in Sessions : PairTimeout(s)
  \/ \E s \in Sessions, ok \in BOOLEAN : PairGenerated(s, ok)
  \/ \E s \in Sessions, u \in Invokers, id \in PairButtons : PairPress(s, u, id)

\* the session of the model above plays no part here
PairInit == Init /\ ~isDM /\ ~wantsPreview

PairSpec == PairInit /\ [][PairNext]_vars

\* ================================================================== claims
CallsOfRun(r) == SelectSeq(calls, LAMBDA c : c.run = r)
Notes == BagToSet(sent)

\* a batch that is the output of a generation that completed and whose
\* document is well-formed JSON satisfying the schema
FromValidatedGeneration(batch) ==
  \E g \in 1..Len(gens) :
    /\ gens[g].pc = "returned"
    /\ gens[g].doc.wellFormed
    /\ SchemaOk(gens[g].doc)
    /\ batch = ParsedData(gens[g].doc)

\* C1: generation is started only once the collection window has closed, and
\* every createIssues run and every creation call carries a batch that a
\* completed generation produced and that passed validation; as long as no
\* generation has succeeded, no creation call is made.
C1_GenerationBeforeCommit ==
  /\ gens # <<>> => collector = "ended"
  /\ \A r \in 1..Len(runs) : FromValidatedGeneration(runs[r].issues)
  /\ \A j \in 1..Len(calls) :
       /\ IssueValid(calls[j].issue)
       /\ calls[j].issue = runs[calls[j].run].issues[calls[j].idx]
  /\ (\A g \in 1..Len(gens) : gens[g].pc # "returned") =>
       runs = <<>> /\ calls = <<>> /\ tracker = <<>>

C1_Witness ==
  /\ ~wantsPreview
  /\ tracker # <<>>
  /\ gens[1].pc = "returned"
  /\ gens[1].text # <<>>

OwnerConfirmed ==
  \E p \in 1..Len(presses) :
    presses[p].user = OwnerId /\ presses[p].customId = "confirm_issues"

\* C2: in preview mode createIssues runs only after a confirm press of the
\* invoking user was accepted, a press is accepted only from the invoking user
\* and only while the button collector is open, and a press by any other user
\* changes nothing in the session.
C2_ConfirmOnly ==
  /\ [](wantsPreview /\ (runs # <<>> \/ calls # <<>>) => OwnerConfirmed)
  /\ [][Len(presses') > Len(presses) =>
          buttonCollector = "open" /\ event'.user = OwnerId]_vars
  /\ [][event'.kind = "press" /\ event'.user # OwnerId =>
          UNCHANGED sessionVars]_vars

C2_Witness ==
  /\ wantsPreview
  /\ OwnerConfirmed
  /\ \E j \in 1..Len(calls) : calls[j].out = "ok"

\* C3 (as claimed): a message of a user other than the invoking user that
\* arrives while the window is open appends nothing to the bundle and does not
\* close the window.
C3_NonOwnerIgnored ==
  [][event'.kind = "message" /\ event'.user = OtherId =>
       UNCHANGED <<collector, assets>>]_vars

Contribution(h) == IF h.content # "" THEN <<h.content>> ELSE <<>>
Completes(i) ==
  /\ i \in 1..Len(handlers')
  /\ handlers'[i].pc = "done"
  /\ i > Len(handlers) \/ handlers[i].pc # "done"

IsPrefix(p, q) == Len(p) <= Len(q) /\ SubSeq(q, 1, Len(p)) = p

\* C4 (as claimed, and leaving room for what later messages append behind
\* it): when the handler of a message of the invoking user completes inside
\* the open window, the text sequence begins with the sequence the handler
\* found followed by the message's text (if not empty), and the image
\* sequence begins with the sequence it found followed by the message's
\* attachment URLs in order.
C4_ExactAppend ==
  [][\A i \in 1..Len(handlers') :
        Completes(i) /\ collector' = "open" /\ handlers'[i].author = OwnerId =>
          /\ IsPrefix(handlers'[i].priorText \o Contribution(handlers'[i]),
                      assets'.text)
          /\ IsPrefix(handlers'[i].priorImages \o handlers'[i].attachments,
                      assets'.images)]_vars

\* C5: a bot-authored message that arrives while the window is open leaves
\* the bundle unchanged, does not close the window and starts no handler.
C5_BotIgnored ==
  [][event'.kind = "message" /\ event'.user = BotId =>
       UNCHANGED <<collector, assets, handlers, endVars, gens>>]_vars

C5_Witness ==
  /\ event.kind = "message"
  /\ event.user = BotId
  /\ event.content = "!done"
  /\ collector = "open"
  /\ assets.text # <<>>

\* the review window ended although no press of the invoking user was
\* accepted: only its timer ends it then
TimedOutUnpressed == buttonCollector = "ended" /\ presses = <<>>

\* C6: after a review timeout without a press of the invoking user there is
\* no createIssues run, no creation call, no created issue, no success and no
\* cancellation message; the review message keeps its content and issues and
\* only loses its buttons.
C6_TimeoutNeverCommits ==
  TimedOutUnpressed =>
    /\ runs = <<>> /\ calls = <<>> /\ tracker = <<>>
    /\ \A n \in Notes : n.kind \notin {"canceled", "success", "error"}
    /\ ~archived
    /\ preview.exists
    /\ preview.content = "Review these issues"
    /\ preview.issues = generatedIssues
    /\ preview.components \in {ReviewRow, {}}
    /\ preview.components = {} \/ preview.clearing \/ unhandled > 0

C6_Witness == TimedOutUnpressed /\ preview.components = {} /\ ~preview.clearing

\* the caller of a createIssues run is not on the path that follows a
\* returned result list
NoResultFor(caller) ==
  IF caller = EndCaller
  THEN endPc \in {"create", "rejected"}
  ELSE presses[caller[2]].pc \notin {"sendSuccess", "archive"}

\* C7: when the k-th creation call of a run fails, the run has thrown, its
\* k-1 earlier issues (the first k-1 of the batch) are created and still in
\* the tracker, the run makes no call after the k-th, and its caller is not
\* handed a result list.
C7_FailureStopsBatch ==
  \A j \in 1..Len(calls) :
    calls[j].out = "fail" =>
      LET r == calls[j].run
          k == calls[j].idx
          run == runs[r]
      IN /\ run.pc = "threw"
         /\ Len(run.created) = k - 1
         /\ \A i \in 1..(k - 1) :
              /\ run.created[i].issue = run.issues[i]
              /\ \E t \in 1..Len(tracker) : tracker[t] = run.created[i]
         /\ Len(CallsOfRun(r)) = k
         /\ NoResultFor(run.caller)

C7_Witness ==
  \E j \in 1..Len(calls) :
    /\ calls[j].out = "fail"
    /\ calls[j].idx = 2
    /\ Len(runs[calls[j].run].issues) = 3
    /\ Len(tracker) = 1

\* C8: the creation calls of a run are made in batch order, one per issue,
\* call i+1 only after call i has returned successfully; when the run returns,
\* one call was made for every issue and the list of created issues has the
\* length and the order of the batch.
C8_SequentialInOrder ==
  \A r \in 1..Len(runs) :
    LET cs == CallsOfRun(r)
        run == runs[r]
    IN /\ Len(cs) <= Len(run.issues)
       /\ \A j \in 1..Len(cs) : cs[j].idx = j /\ cs[j].issue = run.issues[j]
       /\ \A j \in 1..(Len(cs) - 1) : cs[j].out = "ok"
       /\ run.pc = "returned" =>
            /\ Len(cs) = Len(run.issues)
            /\ \A j \in 1..Len(cs) : cs[j].out = "ok"
            /\ Len(run.created) = Len(run.issues)
            /\ \A i \in 1..Len(run.issues) : run.created[i].issue = run.issues[i]

C8_Witness ==
  \E r \in 1..Len(runs) :
    runs[r].pc = "returned" /\ Len(runs[r].issues) = 3 /\ Len(tracker) = 3

\* C9 (as claimed): in direct-commit mode, once the 'end' handler is over
\* after a batch of which some but not all issues were created, a message that
\* shows the number of created issues has been sent to the conversation.
C9_PartialCountShown ==
  (/\ ~wantsPreview
   /\ endPc = "rejected"
   /\ runs # <<>>
   /\ runs[1].pc = "threw"
   /\ runs[1].created # <<>>)
    => \E n \in Notes : n.n = Len(runs[1].created)

\* a failure notice is in the conversation: an error message, or a status
\* message that reads 'Generation failed!'
FailureNoticed ==
  \/ \E n \in Notes : n.kind = "error"
  \/ \E g \in 1..Len(gens) : gens[g].status = "failed"

\* C10 (as claimed): once the 'end' handler is over because generation
\* (completion call, stream or validator) or a creation call failed, a failure
\* notice has been sent to the conversation.
C10_FailureNoticeSent ==
  (/\ endPc = "rejected"
   /\ \/ gens[1].pc = "threw"
      \/ runs # <<>> /\ runs[1].pc = "threw")
    => FailureNoticed


\* the validator has run on the document of generation gn: the 'Generation
\* complete' edit went through (status "complete"), or its failure has been
\* shown since (status "failed" with the whole stream read)
Validated(gn) == gn.status = "complete"

\* what the claim calls a violation, spelt out from the schema's numbers
CandViolates(c) ==
  \/ c.titleLen < MinTitle
  \/ c.bodyLen < MinBody
  \/ \E i \in 1..Len(c.labels) : c.labels[i] < MinLabel \/ c.labels[i] > MaxLabel

DocViolates(doc) ==
  \/ ~doc.hasIssues
  \/ ~doc.isArray
  \/ \E i \in 1..Len(doc.issues) : CandViolates(doc.issues[i])

\* C11: when the parsed document has no issues key, an issues value that is
\* no array, or an array with at least one candidate that violates the schema,
\* validation throws and yields no issue at all: the generation returns
\* nothing and the 'end' handler gets no batch, whatever the other candidates
\* look like.
C11_NoPartialAccept ==
  \A g \in 1..Len(gens) :
    (Validated(gens[g]) /\ gens[g].doc.wellFormed /\ DocViolates(gens[g].doc)) =>
      /\ gens[g].pc \in {"failEdit", "threw"}
      /\ gens[g].data = <<>>
      /\ generatedIssues = NoIssues
      /\ assets.generatedIssues = NoIssues

C11_Witness ==
  /\ gens[1].pc = "threw"
  /\ Validated(gens[1])
  /\ Len(gens[1].doc.issues) = 2
  /\ ~CandViolates(gens[1].doc.issues[1])
  /\ gens[1].doc.issues[2].titleLen = MinTitle - 1
  /\ ~CandViolates([gens[1].doc.issues[2] EXCEPT !.titleLen = MinTitle])
  /\ endPc = "rejected"

\* C12: when the document is well-formed and every candidate of its issues
\* array satisfies the schema, validation returns one issue per candidate, in
\* input order, each with the candidate's title, body and labels (labels in
\* their order), and with an empty label list where the candidate has no
\* labels key.
C12_AllAccepted ==
  \A g \in 1..Len(gens) :
    LET doc == gens[g].doc
        data == gens[g].data
    IN (Validated(gens[g]) /\ doc.wellFormed /\ ~DocViolates(doc)) =>
         /\ gens[g].pc = "returned"
         /\ Len(data) = Len(doc.issues)
         /\ \A i \in 1..Len(doc.issues) :
              /\ data[i].id = doc.issues[i].id
              /\ data[i].titleLen = doc.issues[i].titleLen
              /\ data[i].bodyLen = doc.issues[i].bodyLen
              /\ data[i].hasLabels
              /\ data[i].labels = IF doc.issues[i].hasLabels
                                  THEN doc.issues[i].labels ELSE <<>>

C12_Witness ==
  /\ gens[1].pc = "returned"
  /\ Len(gens[1].data) = 2
  /\ ~gens[1].doc.issues[1].hasLabels
  /\ gens[1].doc.issues[2].labels = <<MinLabel, MaxLabel>>
  /\ generatedIssues = gens[1].data

\* C13: a batch that validation returned, put back as the issues array of a
\* document, is accepted by the validator and comes back equal.
C13_Idempotent ==
  \A g \in 1..Len(gens) :
    gens[g].pc = "returned" =>
      validateAIResponse(Doc(TRUE, TRUE, gens[g].data)) =
        [threw |-> FALSE, data |-> gens[g].data]

C13_Witness ==
  /\ gens[1].pc = "returned"
  /\ Len(gens[1].data) = 2
  /\ gens[1].doc.issues[1].extra
  /\ ~gens[1].doc.issues[2].hasLabels
  /\ gens[1].data # gens[1].doc.issues

\* ---------------------------------------------------------- listing claims
Listed == listing.pc \in {"reply", "replied"}
DoneName == "Done"
BacklogName == "Backlog"
StatusOf(item) == item.fieldValueByName.name
InOutput(item) == \E j \in 1..Len(listing.out) : listing.out[j] = item

\* C14: the listing has no item whose status is the board's Done option.
C14_DoneExcluded ==
  Listed => \A j \in 1..Len(listing.out) : StatusOf(listing.out[j]) # DoneName

C14_Witness ==
  /\ Listed
  /\ \E i \in 1..Len(listing.nodes) :
       listing.nodes[i].content /\ StatusOf(listing.nodes[i]) = DoneName
  /\ listing.out # <<>>

\* C15 (as claimed): every fetched item that has linked issue content and no
\* status value is in the listing.
C15_NoStatusKept ==
  Listed => \A i \in 1..Len(listing.nodes) :
              (listing.nodes[i].content /\ StatusOf(listing.nodes[i]) = Undefined)
                => InOutput(listing.nodes[i])

\* the items of s whose status is (or is not) Backlog, in the order of s
BacklogOf(s) == SelectSeq(s, LAMBDA item : StatusOf(item) = BacklogName)
OthersOf(s) == SelectSeq(s, LAMBDA item : StatusOf(item) # BacklogName)
Filtered ==
  SelectSeq(listing.items,
            LAMBDA item : StatusOf(item) # Undefined /\ StatusOf(item) # DoneName)

\* C16 (as claimed): the listing is the filtered input with its Backlog items
\* first, the Backlog items in their input order and the other items in
\* theirs.
C16_BacklogFirstStable ==
  Listed => listing.out = BacklogOf(Filtered) \o OthersOf(Filtered)

\* ------------------------------------------------------------ review claims
\* the decisions the switch of the button handler has a case for
Decisions == {"confirm_issues", "edit", "cancel_issues"}

\* C17 (as claimed): while the review window is open, the review message
\* offers a button for each of the three decisions confirm, edit and cancel.
C17_ThreeDecisions ==
  (preview.exists /\ buttonCollector = "open") =>
     Decisions \subseteq preview.components

\* edit window e takes a message in this step
WindowCollects(e) == edits[e].pc = "none" /\ edits'[e].pc # "none"
\* the handler of edit window e finishes in this step: the regenerated batch
\* has been put on the review message
RegenerationShown(e) == edits[e].pc # "done" /\ edits'[e].pc = "done"
PreviewsSent ==
  LET notes == {n \in BagToSet(sent') : n.kind = "preview"}
  IN IF notes = {} THEN 0
     ELSE CopiesIn(CHOOSE n \in notes : TRUE, sent') + Cardinality(notes) - 1
Requested == {"request", "statusSend", "stream", "completeEdit", "failEdit",
              "returned"}

ActiveCollections ==
  (IF collector = "open" THEN 1 ELSE 0) + Cardinality(OpenEdits)
ActiveReviews == IF buttonCollector = "open" THEN 1 ELSE 0

Warnings == CopiesIn(Note("skippingImage", 0), sent)

\* q is p with some elements left out
RECURSIVE IsSubSeq(_, _)
IsSubSeq(q, p) ==
  IF q = <<>> THEN TRUE
  ELSE IF p = <<>> THEN FALSE
  ELSE IF Head(q) = Head(p) THEN IsSubSeq(Tail(q), Tail(p))
  ELSE IsSubSeq(q, Tail(p))

\* C20 (as claimed): generation is never aborted while the images are
\* processed; each image whose fetch failed is dropped with one warning, and
\* the completion request is issued with the remaining images in their order.
C20_FetchNeverAborts ==
  \A g \in 1..Len(gens) :
    /\ gens[g].pc = "threw" => gens[g].k = Len(gens[g].images)
    /\ gens[g].pc # "threw" =>
         /\ IsSubSeq(gens[g].kept, SubSeq(gens[g].images, 1, gens[g].k))
         /\ Warnings = gens[g].k - Len(gens[g].kept)

\* ------------------------------------------------------------ bundle claims
\* C22 (as claimed): once the collection window has closed no step changes
\* the bundle's images, and no step changes its text except the step of an
\* edit window that appends the tagged edit request.
C22_FrozenAfterClose ==
  [][collector = "ended" =>
       /\ assets'.images = assets.images
       /\ \/ assets'.text = assets.text
          \/ /\ OpenEdits # {}
             /\ event'.kind = "message"
             /\ event'.content \in DOMAIN Tagged
             /\ assets'.text = Append(assets.text, Tagged[event'.content])]_vars

\* C23 (as claimed): when the accumulated text was shown and then failed
\* validation, the status message ends as a failure notice that still shows
\* the text, and the generation is aborted.
C23_InvalidContentShown ==
  [][\A g \in 1..Len(gens) :
       (gens[g].pc = "failEdit" /\ gens[g].status = "complete"
          /\ gens'[g] # gens[g]) =>
          /\ gens'[g].pc = "threw"
          /\ gens'[g].status = "failed"
          /\ gens'[g].shown]_vars

\* ---------------------------------------------------------- decision claims
\* the createIssues runs started by a confirm press, and the cancel notices
ReviewCommits == {r \in 1..Len(runs) : runs[r].caller[1] = "press"}
Cancellations == CopiesIn(Note("canceled", 0), sent)

\* C26 (as claimed): in one session the batch is submitted by at most one
\* confirm press, and never in a session that was also cancelled.
C26_OneTerminalDecision == Cardinality(ReviewCommits) + Cancellations <= 1

DoneWords == {"!done", "!DONE", "!Done"}
InText(c) == \E i \in 1..Len(assets.text) : assets.text[i] = c

\* C28 (as claimed): a message of a user that is the end signal in any letter
\* case closes the window, starts no handler and leaves the bundle as it was,
\* whatever it carries; a message with any other text leaves the window open,
\* and its text, if it has one, is the text of the handler started for it,
\* appended at once when the message carries no attachment.
C28_DoneContributesNothing ==
  [][(event'.kind = "message" /\ event'.user # BotId /\ collector = "open") =>
       IF event'.content \in DoneWords
       THEN /\ collector' = "ended"
            /\ assets' = assets
            /\ handlers' = handlers
       ELSE /\ collector' = "open"
            /\ Len(handlers') = Len(handlers) + 1
            /\ handlers'[Len(handlers')].content = event'.content
            /\ (event'.n = 0 /\ event'.content # "") =>
                 assets'.text = Append(assets.text, event'.content)]_vars

C28_Witness ==
  /\ event.kind = "message"
  /\ event.content = "!DONE"
  /\ event.n = 1
  /\ collector = "ended"
  /\ assets.images = <<>>
  /\ InText("ok !DONE")

\* ----------------------------------------------------------- paging claims
RECURSIVE Flatten(_)
Flatten(pages) == IF pages = <<>> THEN <<>> ELSE Head(pages) \o Flatten(Tail(pages))
PagesBuilt == listing.pc \in {"reply", "replied"}

\* C29 (as claimed): the n listed items are rendered on max(1, ceil(n/4))
\* pages; no page has more than 4 entries and every page but the last has 4;
\* the pages read in order are the items in listing order (so each item is
\* on one page); and the last page is empty only when there is no item.
C29_Pagination ==
  PagesBuilt =>
    LET n == Len(listing.out)
        pages == listing.embeds
    IN /\ Len(pages) = IF n = 0 THEN 1 ELSE (n + 3) \div 4
       /\ \A i \in 1..Len(pages) : Len(pages[i]) <= 4
       /\ \A i \in 1..(Len(pages) - 1) : Len(pages[i]) = 4
       /\ Flatten(pages) = listing.out
       /\ n > 0 => pages[Len(pages)] # <<>>

C29_Witness ==
  /\ listing.pc = "replied"
  /\ Len(listing.out) = 8
  /\ Len(listing.embeds) = 2

\* ------------------------------------------------------------ stream claims
\* C30 (as claimed): when a stream has been consumed, one progress edit has
\* been made for each 15 characters accumulated, however the text was split
\* into chunks.
C30_FixedCadence ==
  stream.pc = "complete" => stream.edits = stream.len \div 15

\* ----------------------------------------------------------- command claims
\* C24 (as claimed): when a command's handler is over and an error was
\* thrown in it, the user has received a failure message with the error's
\* text, whether the interaction had been replied to or not; and the
\* handler of /list-issues never ends with an error nobody reported.
C24_ErrorsReported ==
  /\ (command.pc \in CmdOver /\ command.error) => command.told = "text"
  /\ listing.pc # "rejected"

\* --------------------------------------------------------- isolation claims
\* what a step may do to invocation s: a message was posted in the channel
\* of s, or the step is an invocation, timer, generation or press of s
OwnStep(s) ==
  \/ pair'.step.kind = "message" /\ pair'.step.channel = Channel(s)
  \/ pair'.step.kind # "message" /\ pair'.step.session = s

\* C21 (as claimed): with two invocations side by side, the bundle, the
\* generated-issues slot and the mode flag of one change only in a step of
\* its own handlers.
C21_SessionsIsolated ==
  [][\A s \in Sessions :
       pair'.sessions[s] # pair.sessions[s] => OwnStep(s)]_vars

\* two sessions of one user are open on the same DM channel with
\* different bundles
C21_Witness ==
  /\ pair.sessions[1].state = "open"
  /\ pair.sessions[2].state = "open"
  /\ Channel(1) = Channel(2)
  /\ pair.sessions[1].text # pair.sessions[2].text
  /\ pair.sessions[2].text # <<>>

\* ------------------------------------------------------------ window claims
\* C25 (as claimed): an open collection window is eventually closed and
\* generation started, whatever is posted meanwhile.
C25_WindowCloses == (collector = "open") ~> (collector = "ended" /\ gens # <<>>)

====
